---- MODULE Spec2Model ----
(***************************************************************************)
(* The background-removal core of rico (src/src/main.rs): the edge         *)
(* predicate is_edge and the border-seeded breadth-first flood fill        *)
(* remove_background, one action per loop iteration of the function.       *)
(*                                                                         *)
(* A pixel is the tuple <<r, g, b, a>> of its four u8 channels, a          *)
(* coordinate the tuple <<x, y>> of two u32 values.  TLC's integers are    *)
(* 32 bits wide and signed, so a u32 is written in two's complement: a     *)
(* value v >= 2^31 is written v - 2^32 (0xFFFFFFFF is -1), and the         *)
(* unsigned comparisons of the code are ULt and UGe.                       *)
(***************************************************************************)
EXTENDS Integers, Sequences, FiniteSets, TLC

VARIABLES
    width,            \* img.dimensions().0
    height,           \* img.dimensions().1
    img,              \* the source buffer, read-only during the fill
    edge_threshold,   \* the u8 threshold of the call
    overflow_checks,  \* build profile: TRUE panics on u32 overflow, FALSE wraps
    output,           \* the output buffer
    visited,          \* the visited grid
    queue,            \* the VecDeque of pending coordinates
    x,                \* counter of the loop over the columns (line 208)
    y,                \* counter of the loop over the interior rows (line 213)
    pc,               \* position in remove_background
    acc,              \* the coordinates the last step used to index img, output or visited
    processed,        \* per coordinate, how often it passed the skip test of line 221
    call,             \* "first", or how the second call got its source
    first,            \* the buffer the first call returned (<<>> before it returns)
    enqueued,         \* how many push_back calls the current call has made
    threads,          \* rayon's current_num_threads() (0 outside a batch)
    fate,             \* per file of the batch, the step of its task that fails, or "ok"
    leaves,           \* the runs <<lo, hi>> of files par_iter hands to one sequential fold each
    task,             \* per file, how far its task has come
    batch_pc          \* position in remove_bg_from_images ("idle" outside a batch)

fillvars == <<width, height, img, edge_threshold, overflow_checks, output, visited,
              queue, x, y, pc, acc, processed, call, first, enqueued>>

batchvars == <<threads, fate, leaves, task, batch_pc>>

vars == <<fillvars, batchvars>>

----------------------------------------------------------------------------
(* Bounds of the model.                                                    *)

MaxW == 3
MaxH == 3
MaxSeedY == 5

----------------------------------------------------------------------------
(* Pixels the images are drawn from.                                       *)

White     == <<255, 255, 255, 255>>
Soft      == <<241, 241, 241, 128>>   \* just above the near-white floor, half transparent
Floor     == <<240, 255, 255, 255>>   \* red exactly at the floor: not near-white
Gray      == <<128, 128, 128, 255>>
Black     == <<0, 0, 0, 255>>
Palette   == {White, Soft, Floor, Gray}
Thresholds == {0, 14, 30, 255}

----------------------------------------------------------------------------
(* u32 arithmetic.                                                         *)

ULt(a, b) == IF (a < 0) = (b < 0) THEN a < b ELSE b < 0
UGe(a, b) == ~ULt(a, b)

\* a - b on u32: overflows exactly when a < b; the wrapped result is a - b
\* in two's complement.
SubOverflows(a, b) == ULt(a, b)

Coords == (0 .. width - 1) \X (0 .. height - 1)

----------------------------------------------------------------------------
(* is_edge, lines 179-192.                                                 *)

\* a.wrapping_sub(b) in place of the absolute difference.
abs_diff_wrapping(a, b) == (a - b) % 256

\* b.saturating_sub(a): only a brighter second pixel counts.
abs_diff_saturating(a, b) == IF b > a THEN b - a ELSE 0

abs_diff(a, b) == IF a > b THEN a - b ELSE b - a

\* The comparison written >= instead of >.
is_edge_ge(p1, p2, t) ==
    \/ abs_diff(p1[1], p2[1]) >= t
    \/ abs_diff(p1[2], p2[2]) >= t
    \/ abs_diff(p1[3], p2[3]) >= t

\* The comparison turned round: a difference below the threshold is an edge.
is_edge_lt(p1, p2, t) ==
    \/ abs_diff(p1[1], p2[1]) < t
    \/ abs_diff(p1[2], p2[2]) < t
    \/ abs_diff(p1[3], p2[3]) < t

is_edge(p1, p2, t) ==
    LET diff_r == abs_diff(p1[1], p2[1])
        diff_g == abs_diff(p1[2], p2[2])
        diff_b == abs_diff(p1[3], p2[3])
    IN  diff_r > t \/ diff_g > t \/ diff_b > t

----------------------------------------------------------------------------
(* remove_background, lines 194-277.                                       *)

\* The floor written >= 240 instead of > 240.
near_white_ge(p) == p[1] >= 240 /\ p[2] >= 240 /\ p[3] >= 240

near_white(p) == p[1] > 240 /\ p[2] > 240 /\ p[3] > 240

\* A visited grid kept from the call before instead of allocated anew.
StaleVisited == visited

\* vec![vec![false; width]; height], line 202
FreshVisited == [c \in Coords |-> FALSE]

\* The right and lower guards written <= instead of <.
EdgeProbesOffByOne(px, py) ==
    (IF ULt(0, px) THEN {<<px - 1, py>>} ELSE {})
    \cup (IF ULt(px + 1, width + 1) THEN {<<px + 1, py>>} ELSE {})
    \cup (IF ULt(0, py) THEN {<<px, py - 1>>} ELSE {})
    \cup (IF ULt(py + 1, height + 1) THEN {<<px, py + 1>>} ELSE {})

\* Only the left and right neighbours are tested.
EdgeProbesHorizontal(px, py) ==
    (IF ULt(0, px) THEN {<<px - 1, py>>} ELSE {})
    \cup (IF ULt(px + 1, width) THEN {<<px + 1, py>>} ELSE {})

\* The neighbours whose pixel lines 238-249 read, each behind its guard.
EdgeProbes(px, py) ==
    (IF ULt(0, px) THEN {<<px - 1, py>>} ELSE {})
    \cup (IF ULt(px + 1, width) THEN {<<px + 1, py>>} ELSE {})
    \cup (IF ULt(0, py) THEN {<<px, py - 1>>} ELSE {})
    \cup (IF ULt(py + 1, height) THEN {<<px, py + 1>>} ELSE {})

\* The flag of lines 234-249.
is_surrounded_by_edges(px, py) ==
    \E n \in EdgeProbes(px, py) : is_edge(img[<<px, py>>], img[n], edge_threshold)

\* The push of the upper neighbour left out.
PushesNoUp(px, py) ==
    (IF ULt(0, px) THEN << <<px - 1, py>> >> ELSE << >>)
    \o (IF ULt(px + 1, width) THEN << <<px + 1, py>> >> ELSE << >>)
    \o (IF ULt(py + 1, height) THEN << <<px, py + 1>> >> ELSE << >>)

\* The coordinates lines 260-271 push, in the order they are pushed.
Pushes(px, py) ==
    (IF ULt(0, px) THEN << <<px - 1, py>> >> ELSE << >>)
    \o (IF ULt(px + 1, width) THEN << <<px + 1, py>> >> ELSE << >>)
    \o (IF ULt(0, py) THEN << <<px, py - 1>> >> ELSE << >>)
    \o (IF ULt(py + 1, height) THEN << <<px, py + 1>> >> ELSE << >>)

\* The mark left out.
mark_nothing(v, c) == v

\* visited[y][x] = true, line 225
mark_visited(v, c) == [v EXCEPT ![c] = TRUE]

\* Only the alpha channel of p is written.
put_alpha(buf, c, p) == [buf EXCEPT ![c] = <<@[1], @[2], @[3], p[4]>>]

\* output.put_pixel(x, y, p), line 257
put_pixel(buf, c, p) == [buf EXCEPT ![c] = p]

\* Rgba([0, 0, 0, 0]), line 257
Transparent == <<0, 0, 0, 0>>

Panic ==
    /\ pc' = "panic"
    /\ UNCHANGED <<output, visited, x, y, processed>>

\* One iteration of `for x in 0..width`, lines 208-211.
SeedRow ==
    /\ pc = "seed_rows"
    /\ ULt(x, width)
    /\ acc' = {}
    /\ IF SubOverflows(height, 1) /\ overflow_checks
         THEN /\ queue' = Append(queue, <<x, 0>>)
              /\ enqueued' = enqueued + 1
              /\ Panic
         ELSE /\ queue' = queue \o << <<x, 0>>, <<x, height - 1>> >>
              /\ enqueued' = enqueued + 2
              /\ x' = x + 1
              /\ UNCHANGED <<pc, output, visited, y, processed>>
    /\ UNCHANGED <<width, height, img, edge_threshold, overflow_checks, call, first>>
    /\ UNCHANGED batchvars

\* The first loop ends and the range 1..height - 1 of line 213 is built.
EnterCols ==
    /\ pc = "seed_rows"
    /\ UGe(x, width)
    /\ acc' = {}
    /\ IF SubOverflows(height, 1) /\ overflow_checks
         THEN Panic
         ELSE /\ pc' = "seed_cols"
              /\ y' = 1
              /\ UNCHANGED <<output, visited, x, processed>>
    /\ UNCHANGED <<width, height, img, edge_threshold, overflow_checks, queue, call,
                   first, enqueued>>
    /\ UNCHANGED batchvars

\* One iteration of `for y in 1..height - 1`, lines 213-216.  With height = 0
\* and wrapping arithmetic the range ends at 0xFFFFFFFF; MaxSeedY cuts that
\* loop short.
SeedCol ==
    /\ pc = "seed_cols"
    /\ ULt(y, height - 1)
    /\ y <= MaxSeedY
    /\ acc' = {}
    /\ IF SubOverflows(width, 1) /\ overflow_checks
         THEN /\ queue' = Append(queue, <<0, y>>)
              /\ enqueued' = enqueued + 1
              /\ Panic
         ELSE /\ queue' = queue \o << <<0, y>>, <<width - 1, y>> >>
              /\ enqueued' = enqueued + 2
              /\ y' = y + 1
              /\ UNCHANGED <<pc, output, visited, x, processed>>
    /\ UNCHANGED <<width, height, img, edge_threshold, overflow_checks, call, first>>
    /\ UNCHANGED batchvars

\* The second loop ends.
EnterBfs ==
    /\ pc = "seed_cols"
    /\ UGe(y, height - 1)
    /\ pc' = "bfs"
    /\ acc' = {}
    /\ UNCHANGED <<width, height, img, edge_threshold, overflow_checks, output,
                   visited, queue, x, y, processed, call, first, enqueued>>
    /\ UNCHANGED batchvars

\* One iteration of `while let Some((x, y)) = queue.pop_front()`, lines 219-273.
\* An index outside the buffer panics (Vec indexing, get_pixel, put_pixel).
BfsStep ==
    /\ pc = "bfs"
    /\ queue # << >>
    /\ LET px == Head(queue)[1]
           py == Head(queue)[2]
           c  == Head(queue)
           rest == Tail(queue)
       IN  IF UGe(px, width) \/ UGe(py, height)
             THEN /\ queue' = rest
                  /\ acc' = {}
                  /\ UNCHANGED <<pc, output, visited, processed, enqueued>>
           ELSE IF c \notin Coords
             THEN /\ queue' = rest
                  /\ acc' = {c}
                  /\ pc' = "panic"
                  /\ UNCHANGED <<output, visited, processed, enqueued>>
           ELSE IF visited[c]
             THEN /\ queue' = rest
                  /\ acc' = {c}
                  /\ UNCHANGED <<pc, output, visited, processed, enqueued>>
           ELSE IF ~near_white(img[c])
             THEN /\ queue' = rest
                  /\ acc' = {c}
                  /\ visited' = mark_visited(visited, c)
                  /\ processed' = [processed EXCEPT ![c] = @ + 1]
                  /\ UNCHANGED <<pc, output, enqueued>>
           ELSE IF ~(EdgeProbes(px, py) \subseteq Coords)
             THEN /\ queue' = rest
                  /\ acc' = {c} \cup EdgeProbes(px, py)
                  /\ visited' = mark_visited(visited, c)
                  /\ processed' = [processed EXCEPT ![c] = @ + 1]
                  /\ pc' = "panic"
                  /\ UNCHANGED <<output, enqueued>>
           ELSE IF is_surrounded_by_edges(px, py)
             THEN /\ queue' = rest
                  /\ acc' = {c} \cup EdgeProbes(px, py)
                  /\ visited' = mark_visited(visited, c)
                  /\ processed' = [processed EXCEPT ![c] = @ + 1]
                  /\ UNCHANGED <<pc, output, enqueued>>
           ELSE /\ queue' = rest \o Pushes(px, py)
                /\ enqueued' = enqueued + Len(Pushes(px, py))
                /\ acc' = {c} \cup EdgeProbes(px, py)
                /\ visited' = mark_visited(visited, c)
                /\ processed' = [processed EXCEPT ![c] = @ + 1]
                /\ output' = put_pixel(output, c, Transparent)
                /\ UNCHANGED pc
    /\ UNCHANGED <<width, height, img, edge_threshold, overflow_checks, x, y, call, first>>
    /\ UNCHANGED batchvars

\* The queue is empty: the loop ends and line 276 returns output.
Return ==
    /\ pc = "bfs"
    /\ queue = << >>
    /\ pc' = "done"
    /\ acc' = {}
    /\ first' = IF call = "first" THEN output ELSE first
    /\ UNCHANGED <<width, height, img, edge_threshold, overflow_checks, output,
                   visited, queue, x, y, processed, call, enqueued>>
    /\ UNCHANGED batchvars

\* A second call of remove_background with the same threshold, lines 196-204:
\* on the same source ("same") or on the buffer the first call returned
\* ("reapply").
SecondCall ==
    /\ pc = "done"
    /\ call = "first"
    /\ \E how \in {"same", "reapply"} :
         /\ call' = how
         /\ img' = IF how = "reapply" THEN output ELSE img
    /\ output' = img'
    /\ visited' = FreshVisited
    /\ queue' = << >>
    /\ x' = 0
    /\ y' = 0
    /\ pc' = "seed_rows"
    /\ acc' = {}
    /\ processed' = [c \in Coords |-> 0]
    /\ enqueued' = 0
    /\ UNCHANGED <<width, height, edge_threshold, overflow_checks, first>>
    /\ UNCHANGED batchvars

----------------------------------------------------------------------------
(* Initial states: the locals of remove_background after lines 196-204.    *)

\* No batch is running.
BatchIdle ==
    /\ threads = 0
    /\ fate = << >>
    /\ leaves = << >>
    /\ task = << >>
    /\ batch_pc = "idle"

Entry(w, h, source, t, checks) ==
    /\ BatchIdle
    /\ width = w
    /\ height = h
    /\ img = source
    /\ edge_threshold = t
    /\ overflow_checks = checks
    /\ output = source
    /\ visited = [c \in (0 .. w - 1) \X (0 .. h - 1) |-> FALSE]
    /\ queue = << >>
    /\ x = 0
    /\ y = 0
    /\ pc = "seed_rows"
    /\ acc = {}
    /\ processed = [c \in (0 .. w - 1) \X (0 .. h - 1) |-> 0]
    /\ call = "first"
    /\ first = << >>
    /\ enqueued = 0

\* A w x h image of colour bg with the cells m1 and m2 repainted.
Marked(w, h, bg, m1, c1, m2, c2) ==
    [c \in (0 .. w - 1) \X (0 .. h - 1) |->
        IF c = m2 THEN c2 ELSE IF c = m1 THEN c1 ELSE bg]

\* Every image up to MaxW x MaxH, zero-sized ones included, that differs from
\* a single colour in at most two cells.  The build profile is only read
\* where a subtraction overflows, which takes a zero dimension.
Init ==
    \E w \in 0 .. MaxW, h \in 0 .. MaxH, t \in Thresholds :
      \E bg \in Palette, c1 \in Palette, c2 \in Palette :
        \E m1 \in (0 .. w - 1) \X (0 .. h - 1) \cup {<<0, 0>>},
           m2 \in (0 .. w - 1) \X (0 .. h - 1) \cup {<<0, 0>>} :
          \E checks \in (IF w = 0 \/ h = 0 THEN BOOLEAN ELSE {TRUE}) :
            Entry(w, h, Marked(w, h, bg, m1, c1, m2, c2), t, checks)

Next == SeedRow \/ EnterCols \/ SeedCol \/ EnterBfs \/ BfsStep \/ Return

Spec == Init /\ [][Next]_vars

\* A second call of remove_background on the same source with a threshold
\* that is no lower, lines 196-204.
CallHigher ==
    /\ pc = "done"
    /\ call = "first"
    /\ call' = "higher"
    /\ \E t \in Thresholds : t >= edge_threshold /\ edge_threshold' = t
    /\ output' = img
    /\ visited' = FreshVisited
    /\ queue' = << >>
    /\ x' = 0
    /\ y' = 0
    /\ pc' = "seed_rows"
    /\ acc' = {}
    /\ processed' = [c \in Coords |-> 0]
    /\ enqueued' = 0
    /\ UNCHANGED <<width, height, img, overflow_checks, first>>
    /\ UNCHANGED batchvars

----------------------------------------------------------------------------
(* Two calls in a row: the first, then a second one on the same source or  *)
(* on the buffer the first returned.                                       *)

NextTwice == Next \/ SecondCall

SpecTwice == Init /\ [][NextTwice]_vars

----------------------------------------------------------------------------
(* One call that is never suspended: the fill is single-threaded and has   *)
(* no blocking step, so a step that can be taken is taken.                 *)

\* Every image up to MaxW x MaxH, none zero-sized, that differs from a single
\* colour in at most one cell.
InitLive ==
    \E w \in 1 .. MaxW, h \in 1 .. MaxH, t \in Thresholds :
      \E bg \in Palette, c1 \in Palette, m1 \in (0 .. w - 1) \X (0 .. h - 1) :
        Entry(w, h, Marked(w, h, bg, m1, c1, m1, c1), t, TRUE)

SpecLive == InitLive /\ [][Next]_vars /\ WF_vars(Next)

----------------------------------------------------------------------------
(* Two calls on one source, the second with a threshold no lower.          *)

NextHigher == Next \/ CallHigher

SpecHigher == Init /\ [][NextHigher]_vars

----------------------------------------------------------------------------
(* The 5x5 white image with one black pixel off the outer ring, at         *)
(* threshold 10.                                                           *)

Init5x5 ==
    \E b \in (1 .. 3) \X (1 .. 3) :
        Entry(5, 5, Marked(5, 5, White, b, Black, b, Black), 10, TRUE)

Spec5x5 == Init5x5 /\ [][Next]_vars

----------------------------------------------------------------------------
(* is_edge alone: img holds the two pixels, pc the answer.                 *)

EdgeChannels == {0, 1, 128, 255}
EdgeAlphas == {0, 255}
EdgePixels == EdgeChannels \X EdgeChannels \X EdgeChannels \X EdgeAlphas
EdgeThresholds == {0, 1, 126, 127, 128, 254, 255}

InitIsEdge ==
    \E p1 \in EdgePixels, p2 \in EdgePixels, t \in EdgeThresholds :
        /\ BatchIdle
        /\ width = 2
        /\ height = 1
        /\ img = [c \in (0 .. 1) \X (0 .. 0) |-> IF c[1] = 0 THEN p1 ELSE p2]
        /\ edge_threshold = t
        /\ overflow_checks = TRUE
        /\ output = img
        /\ visited = [c \in (0 .. 1) \X (0 .. 0) |-> FALSE]
        /\ queue = << >>
        /\ x = 0
        /\ y = 0
        /\ pc = "is_edge"
        /\ acc = {}
        /\ processed = [c \in (0 .. 1) \X (0 .. 0) |-> 0]
        /\ call = "first"
        /\ first = << >>
        /\ enqueued = 0

CallIsEdge ==
    /\ pc = "is_edge"
    /\ pc' = IF is_edge(img[<<0, 0>>], img[<<1, 0>>], edge_threshold)
               THEN "edge" ELSE "no_edge"
    /\ UNCHANGED <<width, height, img, edge_threshold, overflow_checks, output,
                   visited, queue, x, y, acc, processed, call, first, enqueued>>
    /\ UNCHANGED batchvars

SpecIsEdge == InitIsEdge /\ [][CallIsEdge]_vars

----------------------------------------------------------------------------
(* remove_bg_from_images, lines 300-352: files.par_iter().for_each(..).    *)
(* rayon halves the file list while its splitter allows, runs each         *)
(* remaining run of files as one sequential fold, executes both sides of   *)
(* every join even when one panics, and resumes the panic in the caller.   *)

MaxFiles == 4
MaxThreads == 2

\* The step of a file's task that fails: open/decode, create_dir_all, save.
Fates == {"ok", "decode", "mkdir", "save"}

\* The runs of files lo..hi the splitter can leave: a run of two or more is
\* halved while splits remain, or whenever the job was stolen (which takes a
\* second thread and resets the count of splits).
RECURSIVE Split(_, _, _, _)
Split(lo, hi, splits, nthreads) ==
    LET len == hi - lo + 1
        mid == len \div 2
        leaf == { << <<lo, hi>> >> }
        halves(s) == {l \o r : l \in Split(lo, lo + mid - 1, s, nthreads),
                               r \in Split(lo + mid, hi, s, nthreads)}
        stolen == IF splits \div 2 > nthreads THEN splits \div 2 ELSE nthreads
    IN  IF mid < 1 THEN leaf
        ELSE (IF splits > 0 THEN halves(splits \div 2) ELSE leaf)
             \cup (IF nthreads >= 2 THEN halves(stolen) ELSE {})

Files == DOMAIN task

LeafOf(f) == CHOOSE k \in DOMAIN leaves : leaves[k][1] <= f /\ f <= leaves[k][2]

\* The task of f has ended, by return or by panic.
Ended(f) == task[f] \in {"skipped", "saved", "save_failed", "panicked"}

InFlight == {f \in Files : task[f] \in {"decoded", "filled", "dir_ready"}}

\* The fold of f's run has come to f: the files before it in the run have
\* returned (a panic unwinds the fold), and a thread is free.
CanStart(f) ==
    /\ task[f] = "pending"
    /\ \A g \in leaves[LeafOf(f)][1] .. f - 1 : Ended(g) /\ task[g] # "panicked"
    /\ Cardinality(InFlight) < threads

\* The fold of run k is over: every file ended, or one panicked.
LeafOver(k) ==
    \/ \A f \in leaves[k][1] .. leaves[k][2] : Ended(f)
    \/ \E f \in leaves[k][1] .. leaves[k][2] : task[f] = "panicked"

BatchFrame ==
    UNCHANGED <<fillvars, threads, fate, leaves>>

\* ImageReader::open(..).decode(), lines 303-320.
Decode(f) ==
    /\ batch_pc = "running"
    /\ CanStart(f)
    /\ task' = [task EXCEPT ![f] = IF fate[f] = "decode" THEN "skipped" ELSE "decoded"]
    /\ UNCHANGED batch_pc
    /\ BatchFrame

\* remove_background(&img, edge_threshold), line 323.
Fill(f) ==
    /\ batch_pc = "running"
    /\ task[f] = "decoded"
    /\ task' = [task EXCEPT ![f] = "filled"]
    /\ UNCHANGED batch_pc
    /\ BatchFrame

\* The output path and fs::create_dir_all(parent).expect(..), lines 326-339.
MakeDir(f) ==
    /\ batch_pc = "running"
    /\ task[f] = "filled"
    /\ task' = [task EXCEPT ![f] = IF fate[f] = "mkdir" THEN "panicked" ELSE "dir_ready"]
    /\ UNCHANGED batch_pc
    /\ BatchFrame

\* processed_img.save(&output_path), lines 342-348.
Save(f) ==
    /\ batch_pc = "running"
    /\ task[f] = "dir_ready"
    /\ task' = [task EXCEPT ![f] = IF fate[f] = "save" THEN "save_failed" ELSE "saved"]
    /\ UNCHANGED batch_pc
    /\ BatchFrame

\* for_each returns, or resumes a task's panic in remove_bg_from_images,
\* lines 349-352.
Join ==
    /\ batch_pc = "running"
    /\ \A k \in DOMAIN leaves : LeafOver(k)
    /\ InFlight = {}
    /\ batch_pc' = IF \E f \in Files : task[f] = "panicked" THEN "panicked" ELSE "completed"
    /\ UNCHANGED task
    /\ BatchFrame

\* No fill of the single-image model is running.
FillIdle ==
    /\ width = 0
    /\ height = 0
    /\ img = << >>
    /\ edge_threshold = 30
    /\ overflow_checks = TRUE
    /\ output = << >>
    /\ visited = << >>
    /\ queue = << >>
    /\ x = 0
    /\ y = 0
    /\ pc = "idle"
    /\ acc = {}
    /\ processed = << >>
    /\ call = "first"
    /\ first = << >>
    /\ enqueued = 0

\* A non-empty file list (line 294) at the parallel stage of line 301.
InitBatch ==
    \E n \in 1 .. MaxFiles, nthreads \in 1 .. MaxThreads :
      \E fs \in [1 .. n -> Fates], ls \in Split(1, n, nthreads, nthreads) :
        /\ FillIdle
        /\ threads = nthreads
        /\ fate = fs
        /\ leaves = ls
        /\ task = [f \in 1 .. n |-> "pending"]
        /\ batch_pc = "running"

NextBatch ==
    \/ \E f \in Files : Decode(f)
    \/ \E f \in Files : Fill(f)
    \/ \E f \in Files : MakeDir(f)
    \/ \E f \in Files : Save(f)
    \/ Join

SpecBatch == InitBatch /\ [][NextBatch]_vars

----------------------------------------------------------------------------
(* What the claims speak of.                                               *)

NonEmpty == width >= 1 /\ height >= 1

OuterRing ==
    {c \in Coords : c[1] = 0 \/ c[1] = width - 1 \/ c[2] = 0 \/ c[2] = height - 1}

Neighbours4(c) ==
    {n \in Coords : \/ n[2] = c[2] /\ (n[1] = c[1] + 1 \/ n[1] = c[1] - 1)
                    \/ n[1] = c[1] /\ (n[2] = c[2] + 1 \/ n[2] = c[2] - 1)}

\* Near-white in the source, and no 4-neighbour is an edge against it.
Clear(c) ==
    /\ img[c][1] > 240 /\ img[c][2] > 240 /\ img[c][3] > 240
    /\ \A n \in Neighbours4(c) : ~is_edge(img[n], img[c], edge_threshold)

\* The end points of the 4-connected paths of clear coordinates that start
\* on the outer ring.
RECURSIVE Grow(_)
Grow(S) ==
    LET T == S \cup {c \in Coords : Clear(c) /\ Neighbours4(c) \cap S # {}}
    IN  IF T = S THEN S ELSE Grow(T)

PathReachable == Grow({c \in OuterRing : Clear(c)})

\* The coordinates whose output pixel the fill has changed.
MadeTransparent == {c \in Coords : output[c] # img[c]}

----------------------------------------------------------------------------
\* C1: when remove_background returns on an image of width >= 1 and height
\* >= 1, the coordinates it made transparent are exactly those a 4-connected
\* path of clear coordinates (near-white, no neighbour an edge against them)
\* joins to the outer ring.
C1_ExactlyPathReachable ==
    (pc = "done" /\ NonEmpty) => MadeTransparent = PathReachable

\* A clear coordinate that no path reaches is kept while others are removed.
C1_Witness ==
    /\ pc = "done"
    /\ MadeTransparent # {}
    /\ \E c \in Coords : Clear(c) /\ c \notin PathReachable /\ output[c] = img[c]

C3_ZeroSizeRejected ==
    (width = 0 \/ height = 0) => (queue = << >> /\ pc # "panic" /\ acc = {})

\* C4: on a 1x1, 1xN or Nx1 image every index the fill uses lies inside the
\* buffer, nothing panics, no pixel is processed twice, and when the fill
\* returns every pixel has been processed exactly once.
C4_DegenerateSizes ==
    (NonEmpty /\ (width = 1 \/ height = 1)) =>
        /\ pc # "panic"
        /\ acc \subseteq Coords
        /\ \A c \in Coords : processed[c] <= 1
        /\ pc = "done" => \A c \in Coords : processed[c] = 1 /\ visited[c]

\* A one-pixel-wide column of three or more pixels, filled to the end with a
\* pixel removed.
C4_Witness ==
    /\ pc = "done"
    /\ width = 1
    /\ height >= 3
    /\ MadeTransparent # {}
    /\ \A c \in Coords : processed[c] = 1

\* C5: on the 5x5 white image with one black pixel off the outer ring, at
\* threshold 10, the black pixel and its four neighbours keep their source
\* alpha and every other pixel ends transparent.
C5_EdgeContainment ==
    (pc = "done" /\ width = 5 /\ height = 5 /\ edge_threshold = 10
       /\ \E b \in (1 .. 3) \X (1 .. 3) :
            \A c \in Coords : img[c] = IF c = b THEN Black ELSE White) =>
        LET b == CHOOSE c \in Coords : img[c] = Black
        IN  \A c \in Coords :
              IF c = b \/ c \in Neighbours4(b)
                THEN output[c][4] = img[c][4] /\ output[c][4] = 255
                ELSE output[c][4] = 0

\* The fill of the image with the black pixel in the middle has returned.
C5_Witness ==
    /\ pc = "done"
    /\ width = 5 /\ height = 5 /\ edge_threshold = 10
    /\ img[<<2, 2>>] = Black
    /\ output[<<0, 0>>][4] = 0
    /\ output[<<2, 1>>] = White

\* C6: the second call, run on the buffer the first call returned, returns
\* that buffer unchanged.
C6_Idempotent ==
    (call = "reapply" /\ pc = "done") => (output = first /\ img = first)

\* A reapplied fill has returned on a buffer with removed pixels and a kept
\* near-white one.
C6_Witness ==
    /\ call = "reapply"
    /\ pc = "done"
    /\ \E c \in Coords, d \in Coords :
         /\ first[c] = <<0, 0, 0, 0>>
         /\ near_white(first[d])

\* C7: on an image of pure white pixels, at threshold 0, every pixel of the
\* returned buffer has alpha 0.
C7_AllWhiteAllTransparent ==
    (pc = "done" /\ NonEmpty /\ edge_threshold = 0
       /\ \A c \in Coords : img[c][1] = 255 /\ img[c][2] = 255 /\ img[c][3] = 255) =>
        \A c \in Coords : output[c][4] = 0

\* The 3x3 white image, filled at threshold 0.
C7_Witness ==
    /\ pc = "done"
    /\ width = 3 /\ height = 3
    /\ edge_threshold = 0
    /\ \A c \in Coords : img[c] = White

NoNearWhite ==
    \A c \in Coords : ~(img[c][1] > 240 /\ img[c][2] > 240 /\ img[c][3] > 240)

\* C8: on an image without a near-white pixel the output equals the source
\* in every state, and only outer-ring coordinates are ever in the queue.
C8_NoRemoval ==
    (NonEmpty /\ NoNearWhite) =>
        /\ output = img
        /\ \A k \in 1 .. Len(queue) : queue[k] \in OuterRing

\* A 3x3 image of gray with a pixel at the floor, filled to the end.
C8_Witness ==
    /\ pc = "done"
    /\ width = 3 /\ height = 3
    /\ NoNearWhite
    /\ \E c \in Coords, d \in Coords : img[c] = Gray /\ img[d] = Floor
    /\ \A c \in Coords : visited[c] = (c \in OuterRing)

\* C9: is_edge answers true exactly when one of the R, G, B differences, in
\* either direction and without wrap-around, exceeds the threshold; the
\* alphas play no part; at threshold 0 any RGB difference is an edge, and
\* equal RGB is never one.
C9_IsEdge ==
    pc \in {"edge", "no_edge"} =>
        LET a == img[<<0, 0>>]
            b == img[<<1, 0>>]
            t == edge_threshold
            same == a[1] = b[1] /\ a[2] = b[2] /\ a[3] = b[3]
        IN  /\ (pc = "edge") <=>
                 \E ch \in 1 .. 3 : a[ch] - b[ch] > t \/ b[ch] - a[ch] > t
            /\ \A a4 \in {0, 128, 255}, b4 \in {0, 128, 255} :
                 is_edge(<<a[1], a[2], a[3], a4>>, <<b[1], b[2], b[3], b4>>, t)
                     = (pc = "edge")
            /\ t = 0 => ((pc = "edge") <=> ~same)
            /\ same => pc = "no_edge"

\* A difference of 255 from a darker first pixel, alphas unequal, is an edge
\* at threshold 254.
C9_Witness ==
    /\ pc = "edge"
    /\ edge_threshold = 254
    /\ img[<<0, 0>>][1] = 0 /\ img[<<1, 0>>][1] = 255
    /\ img[<<0, 0>>][4] # img[<<1, 0>>][4]

OwnOutcome(f) ==
    CASE fate[f] = "ok" -> "saved"
      [] fate[f] = "decode" -> "skipped"
      [] fate[f] = "mkdir" -> "panicked"
      [] fate[f] = "save" -> "save_failed"

\* C11: when the batch has ended, every file's task has run to the end its
\* own steps decide (a failure is that file's alone), and the batch was not
\* aborted by a task's failure.
C11_FailureIsolated ==
    batch_pc \in {"completed", "panicked"} =>
        /\ \A f \in Files : task[f] = OwnOutcome(f)
        /\ batch_pc = "completed"

\* C12: of two runs on one image with thresholds t1 <= t2, every pixel the
\* run with t1 removed is removed by the run with t2.
C12_ThresholdMonotone ==
    (call = "higher" /\ pc = "done") =>
        \A c \in Coords : first[c] # img[c] => output[c] # img[c]

\* The run with the higher threshold has removed strictly more than the
\* first, which removed something.
C12_Witness ==
    /\ call = "higher"
    /\ pc = "done"
    /\ \E c \in Coords : first[c] # img[c]
    /\ \E c \in Coords : first[c] = img[c] /\ output[c] # img[c]

\* How many times the fill has passed the skip test, over all coordinates.
RECURSIVE SumProcessed(_)
SumProcessed(S) ==
    IF S = {} THEN 0
    ELSE LET c == CHOOSE d \in S : TRUE
         IN  processed[c] + SumProcessed(S \ {c})

C13_State ==
    /\ \A c \in Coords : processed[c] <= 1
    /\ SumProcessed(Coords) <= width * height
    /\ \A c \in Coords : visited[c] <=> processed[c] = 1
    /\ \A c \in Coords : output[c] # img[c] => visited[c]

C13_Step ==
    \A c \in Coords : visited[c] => visited'[c]

\* C13: in every state of the fill each coordinate has been processed at
\* most once, however often it was enqueued, so at most width x height
\* coordinates have been processed; output differs from the source only at
\* visited coordinates; and a visited flag that is true stays true.
C13_VisitedOnce == []C13_State /\ [][C13_Step]_vars

\* A 3x3 fill has returned after more pushes than there are pixels, each
\* pixel processed once.
C13_Witness ==
    /\ pc = "done"
    /\ width = 3 /\ height = 3
    /\ enqueued > width * height
    /\ \A c \in Coords : processed[c] = 1
    /\ \E c \in Coords : output[c] # img[c]

\* The pushes of the two seeding loops, lines 208-216.
NumSeeds == 2 * width + 2 * (IF height > 2 THEN height - 2 ELSE 0)

\* C14: on an image of width >= 1 and height >= 1 the fill reaches its
\* return with the queue empty, and never has it pushed more than the seeds
\* plus 4 x width x height coordinates.
C14_Terminates ==
    /\ (NonEmpty /\ pc = "seed_rows") ~> (pc = "done" /\ queue = << >>)
    /\ [](NonEmpty => enqueued <= NumSeeds + 4 * width * height)

\* A 3x3 fill has returned after pushing more than its seeds.
C14_Witness ==
    /\ pc = "done"
    /\ queue = << >>
    /\ width = 3 /\ height = 3
    /\ enqueued > NumSeeds

====
